---- MODULE Spec2Model ----
(* A state-machine model of wobble/model.py: the Model and Component classes. *)
(* Numerical arrays are abstracted to what the control flow depends on:       *)
(* their lengths, the identity of the array object, and how many optimizer    *)
(* steps were applied to them.  A component's purely numerical options (the    *)
(* learning rates, scale_by_airmass, template_xs) are left out.               *)
EXTENDS Integers, Sequences, FiniteSets, TLC

\* ---------------------------------------------------------------- bounds
DataN == 2          \* data.N, the epoch count of the Data object
MaxK == 1           \* largest variable_bases a caller passes
MaxNiter == 2       \* largest niter of one optimize() call
MaxTotalIters == 2  \* iterations summed over all optimize() calls
MaxBlocks == 3      \* optimize(niter > 0) is explored for models of at most this many update ops
NModels == 2        \* Model objects sharing one Results object
MaxOrder == 1       \* largest order index r a Component is built for

\* the longest starting_rvs array a caller passes: one epoch too many
MaxLen == DataN + 1

Names == {"star", "tellurics"}
Models == 1..NModels

\* ---------------------------------------------------------------- helpers
None == <<>>
Some(v) == <<v>>
IsNone(o) == o = <<>>
Opt(S) == {None} \cup {Some(v) : v \in S}
\* kwargs.get(key, default) / a keyword argument's default value
Get(o, default) == IF IsNone(o) THEN default ELSE o[1]

Zeros(n) == [i \in 1..n |-> 0]

RECURSIVE SumSeq(_)
SumSeq(s) == IF s = <<>> THEN 0 ELSE s[1] + SumSeq(Tail(s))

Range(s) == {s[i] : i \in 1..Len(s)}

\* ---------------------------------------------------------------- Data
\* The Data object for one order: N epochs, barycentric velocities, the flux
\* array ys[r].  An array's content is the sequence of the component names
\* whose template has been subtracted from the observed flux.
Bervs == [n \in 1..DataN |-> 2 * n]
DataInit == [N |-> DataN, bervs |-> Bervs, ys |-> <<>>]

\* ---------------------------------------------------------------- Component
RegNames == <<"L1_template", "L2_template", "L1_basis_vectors", "L2_basis_vectors", "L2_basis_weights">>

\* the keyword arguments of Component.__init__; None: not passed
NoKw == [rvs_fixed |-> None, variable_bases |-> None, regularization_par_file |-> None,
         L1_template |-> None, L2_template |-> None, L1_basis_vectors |-> None,
         L2_basis_vectors |-> None, L2_basis_weights |-> None]

\* regularization_par: the names of the regularization attributes of a component
Regularization_par(K) == IF K > 0 THEN RegNames ELSE SubSeq(RegNames, 1, 2)

\* eval(par): the keyword value, or the signature's default
KeywordValue(kw, par) ==
    CASE par = "L1_template" -> Get(kw.L1_template, 0)
      [] par = "L2_template" -> Get(kw.L2_template, 0)
      [] par = "L1_basis_vectors" -> Get(kw.L1_basis_vectors, 0)
      [] par = "L2_basis_vectors" -> Get(kw.L2_basis_vectors, 0)
      [] par = "L2_basis_weights" -> Get(kw.L2_basis_weights, 1)

\* f[par][r] of the h5py file raises: file cannot be opened, key missing, or
\* no entry for order r (r is 0-based, the stored sequence 1-based)
ReadRaises(f, par, r) ==
    \/ ~f.readable
    \/ par \notin f.keys
    \/ r + 1 > Len(f.vals[par])

\* the try block's loop from position i: each attribute is overwritten as soon
\* as it is read; the first failure leaves the loop, keeping what was written
RECURSIVE ReadRegularization(_, _, _, _, _)
ReadRegularization(reg, f, pars, r, i) ==
    IF i > Len(pars) THEN reg
    ELSE IF ReadRaises(f, pars[i], r) THEN reg
    ELSE ReadRegularization([reg EXCEPT ![pars[i]] = Some(f.vals[pars[i]][r + 1])],
                            f, pars, r, i + 1)

\* Component.__init__
ComponentInit(name, r, starting_rvs, kw) ==
    LET K == Get(kw.variable_bases, 0)
        pars == Regularization_par(K)
        fromKw == [p \in Range(RegNames) |->
                     IF p \in Range(pars) THEN Some(KeywordValue(kw, p)) ELSE None]
        reg == IF IsNone(kw.regularization_par_file) THEN fromKw
               ELSE ReadRegularization(fromKw, kw.regularization_par_file[1], pars, r, 1)
    IN [name |-> name, r |-> r, K |-> K, N |-> Len(starting_rvs),
        rvs_fixed |-> Get(kw.rvs_fixed, FALSE),
        regularization_par |-> pars, reg |-> reg,
        starting_rvs |-> starting_rvs,
        \* attributes that exist only after initialize_template / setup / optimize
        template_ys |-> None, basis_vectors |-> None, basis_weights |-> None,
        rvs |-> None, ivars_rvs |-> None]

\* ---------------------------------------------------------------- Results
\* Results.add_component(c): records the component's name
ResultsAddComponent(results, c) ==
    [results EXCEPT !.component_names = Append(@, c.name),
                    !.add_calls = Append(@, c.name)]

\* ---------------------------------------------------------------- Model
\* Model.__init__
ModelInit(r) == [components |-> <<>>, component_names |-> <<>>, r |-> r, updates |-> None]

\* A mutant: the duplicate-name guard is dropped.
AddComponentNoGuard(self, results, name, starting_rvs, kw) ==
    LET c == ComponentInit(name, self.r, starting_rvs, kw)
    IN [self |-> [self EXCEPT !.components = Append(@, c),
                              !.component_names = Append(@, name)],
        results |-> IF name \in Range(results.component_names) THEN results
                    ELSE ResultsAddComponent(results, c),
        warned |-> FALSE]

\* A mutant: results.add_component is called for every component added.
AddComponentAlwaysReport(self, results, name, starting_rvs, kw) ==
    IF name \in Range(self.component_names)
    THEN [self |-> self, results |-> results, warned |-> TRUE]
    ELSE LET c == ComponentInit(name, self.r, starting_rvs, kw)
         IN [self |-> [self EXCEPT !.components = Append(@, c),
                                   !.component_names = Append(@, name)],
             results |-> ResultsAddComponent(results, c),
             warned |-> FALSE]

\* Model.add_component: the new Model, the new Results, and whether the
\* duplicate-name message was printed
add_component(self, results, name, starting_rvs, kw) ==
    IF name \in Range(self.component_names)
    THEN [self |-> self, results |-> results, warned |-> TRUE]
    ELSE LET c == ComponentInit(name, self.r, starting_rvs, kw)
         IN [self |-> [self EXCEPT !.components = Append(@, c),
                                   !.component_names = Append(@, name)],
             results |-> IF name \in Range(results.component_names) THEN results
                         ELSE ResultsAddComponent(results, c),
             warned |-> FALSE]

\* Model.add_star: starting_rvs None means -bervs + mean(bervs)
add_star(self, data, results, name, starting_rvs, kw) ==
    LET mean == SumSeq(data.bervs) \div Len(data.bervs)
        rvs == IF IsNone(starting_rvs)
               THEN [n \in 1..Len(data.bervs) |-> mean - data.bervs[n]]
               ELSE starting_rvs[1]
    IN add_component(self, results, name, rvs, kw)

\* Model.add_telluric: starting_rvs None means zeros(data.N), and rvs_fixed
\* defaults to True
add_telluric(self, data, results, name, starting_rvs, kw) ==
    LET rvs == IF IsNone(starting_rvs) THEN Zeros(data.N) ELSE starting_rvs[1]
        kw2 == [kw EXCEPT !.rvs_fixed = Some(Get(@, TRUE))]
    IN add_component(self, results, name, rvs, kw2)

\* ---------------------------------------------------------------- template initialization
\* numpy broadcasting of data_xs (N rows) with starting_rvs[:, None] (L rows)
Broadcasts(L, N) == L = N \/ L = 1 \/ N = 1

InitEvent(c, in, inval, out, outval) ==
    [ev |-> "initialize_template", comp |-> c.name, in |-> in, inval |-> inval,
     out |-> out, outval |-> outval]

\* Component.initialize_template(data_xs, data_ys, data_ivars).  heap: the
\* array objects alive, by identity (heap[id] is the content of array id);
\* ref: the identity of the array passed as data_ys; N: the rows of data_xs.
\* Gives the component, the heap, the identity of the returned array (0 when
\* the call raised) and whether it raised.
initialize_template(c, heap, ref, N) ==
    LET L == Len(c.starting_rvs)
        binned == [from |-> heap[ref], steps |-> 0]
        c1 == [c EXCEPT !.template_ys = Some(binned)]
        c2 == IF c.K > 0
              THEN [c1 EXCEPT !.basis_vectors = Some(binned), !.basis_weights = Some(binned)]
              ELSE c1
        new == Len(heap) + 1
    IN IF ~Broadcasts(L, N)
       THEN \* line 264: shapes (N, M) and (L, 1) do not broadcast
            [c |-> c, heap |-> heap, ret |-> 0, raised |-> TRUE]
       ELSE IF L > N
       THEN \* lines 279 / 288: row n >= N of an N-row array
            [c |-> c1, heap |-> heap, ret |-> 0, raised |-> TRUE]
       ELSE \* data_resids = np.copy(data_ys), then the template is subtracted in place
            [c |-> c2, heap |-> Append(heap, Append(heap[ref], c.name)),
             ret |-> new, raised |-> FALSE]

\* the loop of Model.initialize_templates from component i on
RECURSIVE InitLoop(_, _, _, _, _, _)
InitLoop(comps, heap, ref, N, i, log) ==
    IF i > Len(comps)
    THEN [components |-> comps, heap |-> heap, log |-> log, raised |-> FALSE]
    ELSE LET res == initialize_template(comps[i], heap, ref, N)
             comps2 == [comps EXCEPT ![i] = res.c]
             ev == InitEvent(comps[i], ref, heap[ref], res.ret,
                             IF res.raised THEN <<>> ELSE res.heap[res.ret])
         IN IF res.raised
            THEN [components |-> comps2, heap |-> res.heap, log |-> Append(log, ev),
                  raised |-> TRUE]
            ELSE InitLoop(comps2, res.heap, res.ret, N, i + 1, Append(log, ev))

\* the identity of the Data object's own flux array self.data.ys[self.r]
DataYsId == 1

\* Model.initialize_templates: data_ys = np.copy(self.data.ys[self.r]) is array 2
initialize_templates(self, data) ==
    InitLoop(self.components, <<data.ys, data.ys>>, 2, data.N, 1, <<>>)

\* ---------------------------------------------------------------- setup
\* Component.setup: the TensorFlow variables take the initial values.  interp
\* is taken to broadcast its operands as the TensorFlow ops around it do, so
\* that a one-element starting_rvs passes.
ComponentSetup(c) == [c EXCEPT !.rvs = Some(c.starting_rvs)]

Block(i, var) == [c |-> i, var |-> var]

\* the optimizers Model.setup appends to self.updates for component i
BlocksOf(c, i) ==
    <<Block(i, "template_ys")>>
    \o (IF ~c.rvs_fixed THEN <<Block(i, "rvs")>> ELSE <<>>)
    \o (IF c.K > 0 THEN <<Block(i, "basis_vectors"), Block(i, "basis_weights")>> ELSE <<>>)

RECURSIVE UpdatesFrom(_, _)
UpdatesFrom(comps, i) ==
    IF i > Len(comps) THEN <<>> ELSE BlocksOf(comps[i], i) \o UpdatesFrom(comps, i + 1)

\* Model.setup: the Model, the Data's flux array afterwards, the
\* initialize_template calls made, and whether it raised
setup(self, data) ==
    LET it == initialize_templates(self, data)
        comps == [i \in 1..Len(it.components) |-> ComponentSetup(it.components[i])]
    IN IF it.raised
       THEN [self |-> [self EXCEPT !.components = it.components],
             ys |-> it.heap[DataYsId], log |-> it.log, raised |-> TRUE]
       ELSE [self |-> [self EXCEPT !.components = comps,
                                   !.updates = Some(UpdatesFrom(comps, 1))],
             ys |-> it.heap[DataYsId], log |-> it.log, raised |-> FALSE]

\* ---------------------------------------------------------------- optimizer steps
\* the current values of every parameter, by component
Params(self) ==
    [i \in 1..Len(self.components) |->
        [rvs |-> self.components[i].rvs,
         template_ys |-> self.components[i].template_ys,
         basis_vectors |-> self.components[i].basis_vectors,
         basis_weights |-> self.components[i].basis_weights]]

Stepped(v) == [v EXCEPT !.steps = @ + 1]

\* one Adam update op writes its own variable
ApplyUpdate(self, b) ==
    LET c == self.components[b.c]
        c2 == CASE b.var = "rvs" ->
                     [c EXCEPT !.rvs = Some([n \in 1..Len(c.rvs[1]) |-> c.rvs[1][n] + 1])]
                [] b.var = "template_ys" -> [c EXCEPT !.template_ys = Some(Stepped(@[1]))]
                [] b.var = "basis_vectors" -> [c EXCEPT !.basis_vectors = Some(Stepped(@[1]))]
                [] b.var = "basis_weights" -> [c EXCEPT !.basis_weights = Some(Stepped(@[1]))]
    IN [self EXCEPT !.components[b.c] = c2]

\* ---------------------------------------------------------------- uncertainties
\* np.linspace(-50., 50., N_grid), kept to its two end points
Grid == <<-50, 50>>

\* c.dnll_dv[n] for the fed rvs v: the objective's gradient, taken as that of
\* a quadratic misfit with its minimum at v[n] = 0
Dnll_dv(v, n) == v[n]

\* A mutant: the fed value is assigned to the variable.
SessionRunFeedAssigns(self, i, v, n) ==
    [grad |-> Dnll_dv(v, n), self |-> [self EXCEPT !.components[i].rvs = Some(v)]]

\* session.run(c.dnll_dv, feed_dict={c.rvs: v})[0][n]: the gradient at the fed
\* value; the variable keeps its own value
SessionRunFeed(self, i, v, n) ==
    [grad |-> Dnll_dv(v, n), self |-> self]

\* the list comprehension over the rows of rvs_grid from row g on: ATy so far
RECURSIVE GridLoop(_, _, _, _, _, _)
GridLoop(self, i, best, n, g, aty) ==
    IF g > Len(Grid) THEN [self |-> self, aty |-> aty]
    ELSE LET v == [best EXCEPT ![n] = @ + Grid[g]]
             run == SessionRunFeed(self, i, v, n)
         IN GridLoop(run.self, i, best, n, g + 1, aty + Grid[g] * run.grad)

ATA == SumSeq([g \in 1..Len(Grid) |-> Grid[g] * Grid[g]])

\* the loop over epochs n (1-based) of a free component
RECURSIVE EpochLoop(_, _, _, _, _)
EpochLoop(self, i, best, N, n) ==
    IF n > N THEN [self |-> self, raised |-> FALSE]
    ELSE IF n > Len(best)
    THEN \* rvs_grid[:, n] of an array with len(best_rvs) columns
         [self |-> self, raised |-> TRUE]
    ELSE LET gl == GridLoop(self, i, best, n, 1, 0)
             iv == [gl.self.components[i].ivars_rvs[1] EXCEPT ![n] = gl.aty \div ATA]
         IN EpochLoop([gl.self EXCEPT !.components[i].ivars_rvs = Some(iv)],
                      i, best, N, n + 1)

\* Model.estimate_uncertainties from component i on
RECURSIVE EstimateLoop(_, _, _)
EstimateLoop(self, N, i) ==
    IF i > Len(self.components) THEN [self |-> self, raised |-> FALSE]
    ELSE LET c == self.components[i]
         IN IF IsNone(c.rvs)
            THEN \* session.run(c.rvs): the component has no attribute rvs
                 [self |-> self, raised |-> TRUE]
            ELSE LET best == c.rvs[1]
                     s1 == [self EXCEPT !.components[i].ivars_rvs = Some(Zeros(Len(best)))]
                     ep == IF c.rvs_fixed THEN [self |-> s1, raised |-> FALSE]
                           ELSE EpochLoop(s1, i, best, N, 1)
                 IN IF ep.raised THEN ep ELSE EstimateLoop(ep.self, N, i + 1)

estimate_uncertainties(self, data) == EstimateLoop(self, data.N, 1)

Event(ev, name) == [ev |-> ev, comp |-> name, in |-> 0, inval |-> <<>>, out |-> 0, outval |-> <<>>]

\* the part of Model.optimize after the iterations: estimate_uncertainties,
\* then results.update(c) for every component
Finish(self, data) ==
    LET est == estimate_uncertainties(self, data)
    IN [self |-> est.self, raised |-> est.raised,
        events |-> <<Event("estimate_uncertainties", "")>>
                   \o (IF est.raised THEN <<>>
                       ELSE [i \in 1..Len(est.self.components) |->
                                Event("results.update", est.self.components[i].name)])]

\* ---------------------------------------------------------------- state
VARIABLES
    model,    \* model[m]: the Model object m
    data,     \* the Data object the Models were built on
    results,  \* the Results object the Models share
    session,  \* the TensorFlow session: the session.run(self.updates) under way
    last      \* the most recent public call: its arguments, outcome and events

vars == <<model, data, results, session, last>>

NoCall == [op |-> "none", m |-> 0, name |-> "", niter |-> 0, reg_kw |-> NoKw,
           raised |-> FALSE, warned |-> FALSE, events |-> <<>>]

Idle(total) == [m |-> 0, left |-> 0, total |-> total, unread |-> {}, reading |-> {},
                seen |-> {}, start |-> <<>>]

Init ==
    /\ model = [m \in Models |-> ModelInit(0)]
    /\ data = DataInit
    /\ results = [component_names |-> <<>>, add_calls |-> <<>>]
    /\ session = Idle(0)
    /\ last = NoCall

\* ---------------------------------------------------------------- public calls
\* the regularization keywords among kw
RegKw(kw) == [kw EXCEPT !.rvs_fixed = None, !.variable_bases = None]

\* every way of adding a component ends in Model.add_component(name, ...)
Added(m, name, kw, res) ==
    /\ model' = [model EXCEPT ![m] = res.self]
    /\ results' = res.results
    /\ last' = [NoCall EXCEPT !.op = "add_component", !.m = m, !.name = name,
                              !.reg_kw = RegKw(kw), !.warned = res.warned]
    /\ UNCHANGED <<data, session>>

AddComponent(m, name, starting_rvs, kw) ==
    /\ session.left = 0
    /\ Added(m, name, kw,
             add_component(model[m], results, name, starting_rvs, kw))

AddStar(m, name, starting_rvs, kw) ==
    /\ session.left = 0
    /\ Added(m, name, kw,
             add_star(model[m], data, results, name, starting_rvs, kw))

AddTelluric(m, name, starting_rvs, kw) ==
    /\ session.left = 0
    /\ Added(m, name, kw,
             add_telluric(model[m], data, results, name, starting_rvs, kw))

\* setup() on a Model that has not completed a setup() yet
Setup(m) ==
    /\ session.left = 0
    /\ IsNone(model[m].updates)
    /\ LET res == setup(model[m], data)
       IN /\ model' = [model EXCEPT ![m] = res.self]
          /\ data' = [data EXCEPT !.ys = res.ys]
          /\ last' = [NoCall EXCEPT !.op = "setup", !.m = m, !.raised = res.raised,
                                    !.events = res.log]
    /\ UNCHANGED <<results, session>>

RunEvents(k) == [j \in 1..k |-> Event("session.run", "")]

\* optimize(niter): up to the first session.run(self.updates), or to its end
\* when no update op is run
Optimize(m, niter) ==
    /\ session.left = 0
    /\ session.total + niter <= MaxTotalIters
    /\ LET self == model[m]
           call == [NoCall EXCEPT !.op = "optimize", !.m = m, !.niter = niter]
       IN IF niter > 0 /\ IsNone(self.updates)
          THEN \* the Model has no attribute updates
               /\ last' = [call EXCEPT !.raised = TRUE]
               /\ UNCHANGED <<model, session>>
          ELSE IF niter = 0 \/ self.updates[1] = <<>>
          THEN LET fin == Finish(self, data)
               IN /\ model' = [model EXCEPT ![m] = fin.self]
                  /\ last' = [call EXCEPT !.raised = fin.raised,
                                          !.events = RunEvents(niter) \o fin.events]
                  /\ session' = Idle(session.total + niter)
          ELSE /\ Len(self.updates[1]) <= MaxBlocks
               /\ session' = [m |-> m, left |-> niter, total |-> session.total,
                              unread |-> Range(self.updates[1]), reading |-> {},
                              seen |-> {}, start |-> Params(self)]
               /\ last' = call
               /\ UNCHANGED model
    /\ UNCHANGED <<data, results>>

\* within session.run(self.updates): update op b evaluates its gradient,
\* reading the variables as they are now
GradStep(b) ==
    /\ session.left > 0
    /\ b \in session.unread
    /\ session' = [session EXCEPT !.unread = @ \ {b}, !.reading = @ \cup {b},
                                  !.seen = @ \cup {[b |-> b, snap |-> Params(model[session.m])]}]
    /\ UNCHANGED <<model, data, results, last>>

\* within session.run(self.updates): update op b writes its variable and its
\* gradient is dropped.  The
\* last write ends the iteration; the last iteration's ends the optimize call.
ApplyStep(b) ==
    /\ session.left > 0
    /\ b \in session.reading
    /\ LET m == session.m
           self == ApplyUpdate(model[m], b)
           ends == session.unread = {} /\ session.reading = {b}
           fin == Finish(self, data)
       IN IF ~ends
          THEN /\ model' = [model EXCEPT ![m] = self]
               /\ session' = [session EXCEPT !.reading = @ \ {b},
                                             !.seen = {g \in @ : g.b # b}]
               /\ UNCHANGED last
          ELSE IF session.left > 1
          THEN /\ model' = [model EXCEPT ![m] = self]
               /\ session' = [session EXCEPT !.left = @ - 1, !.total = @ + 1,
                                             !.unread = Range(self.updates[1]),
                                             !.reading = {}, !.seen = {},
                                             !.start = Params(self)]
               /\ last' = [last EXCEPT !.events = Append(@, Event("session.run", ""))]
          ELSE /\ model' = [model EXCEPT ![m] = fin.self]
               /\ session' = Idle(session.total + 1)
               /\ last' = [last EXCEPT !.raised = fin.raised,
                                       !.events = Append(@, Event("session.run", "")) \o fin.events]
    /\ UNCHANGED <<data, results>>

\* ---------------------------------------------------------------- specifications
StartingRvs == {Zeros(L) : L \in 1..MaxLen}

Kwargs == {[NoKw EXCEPT !.rvs_fixed = f, !.variable_bases = k] :
              f \in Opt(BOOLEAN), k \in Opt({MaxK})}

AllBlocks == {Block(i, var) : i \in 1..Cardinality(Names),
                              var \in {"template_ys", "rvs", "basis_vectors", "basis_weights"}}

\* the Model under study in Spec
TheModel == CHOOSE m \in Models : \A k \in Models : m <= k

\* One Model through its whole life: components added at any time, setup, optimize.
Next ==
    \/ \E name \in Names, s \in StartingRvs, kw \in Kwargs : AddComponent(TheModel, name, s, kw)
    \/ \E name \in Names, s \in Opt({Zeros(MaxLen)}) : AddStar(TheModel, name, s, NoKw)
    \/ \E name \in Names, s \in Opt({Zeros(MaxLen)}), f \in Opt(BOOLEAN) :
          AddTelluric(TheModel, name, s, [NoKw EXCEPT !.rvs_fixed = f])
    \/ Setup(TheModel)
    \/ \E niter \in 0..MaxNiter : Optimize(TheModel, niter)
    \/ \E b \in AllBlocks : GradStep(b)
    \/ \E b \in AllBlocks : ApplyStep(b)

Spec == Init /\ [][Next]_vars

\* Several Models on one Results object: components added to any of them.
NextShared ==
    \/ \E m \in Models, name \in Names : AddComponent(m, name, Zeros(DataN), NoKw)
    \/ \E m \in Models, name \in Names : AddStar(m, name, None, NoKw)
    \/ \E m \in Models, name \in Names : AddTelluric(m, name, None, NoKw)

SpecShared == Init /\ [][NextShared]_vars

\* Component construction with regularization keywords and a parameter file.
FileValue(p) == CHOOSE i \in 1..Len(RegNames) : RegNames[i] = p

\* files that cannot be opened, that hold every key, and that lack some keys
KeySets == {Range(RegNames), {}} \cup {Range(RegNames) \ {p} : p \in Range(RegNames)}

Files == {[readable |-> rd, keys |-> ks,
           vals |-> [p \in Range(RegNames) |-> [o \in 1..n |-> 10 * o + FileValue(p)]]] :
             rd \in BOOLEAN, ks \in KeySets, n \in 1..(MaxOrder + 1)}

RegKwargs == {[NoKw EXCEPT !.variable_bases = k, !.L1_template = a, !.L2_basis_weights = w,
                           !.regularization_par_file = f] :
                 k \in Opt({MaxK}), a \in Opt({2}), w \in Opt({3}), f \in Opt(Files)}

InitRegularization ==
    /\ \E r \in 0..MaxOrder : model = [m \in Models |-> ModelInit(r)]
    /\ data = DataInit
    /\ results = [component_names |-> <<>>, add_calls |-> <<>>]
    /\ session = Idle(0)
    /\ last = NoCall

NextRegularization ==
    \E kw \in RegKwargs : AddComponent(TheModel, "star", Zeros(DataN), kw)

SpecRegularization == InitRegularization /\ [][NextRegularization]_vars

\* ---------------------------------------------------------------- properties
Components(m) == model[m].components
IsSetUp(m) == ~IsNone(model[m].updates)
Count(seq, x) == Cardinality({i \in 1..Len(seq) : seq[i] = x})

\* an add_component / add_star / add_telluric call has just been made on a
\* Model that already had a component of that name
DuplicateAdd ==
    /\ last'.op = "add_component"
    /\ last'.name \in Range(model[last'.m].component_names)

\* C1: adding a component under a name the Model already has changes neither
\* the Model (components, component_names, every existing component) nor the
\* Results (results.add_component is not called), and does not raise.
C1_DuplicateAddIsNoOp ==
    [][DuplicateAdd => (model' = model /\ results' = results /\ ~last'.raised)]_vars

\* a duplicate add was warned about on a Model holding that one component,
\* the Results having been told of the name once
C1_Witness ==
    /\ last.op = "add_component"
    /\ last.warned
    /\ model[last.m].component_names = <<last.name>>
    /\ results.add_calls = <<last.name>>

\* C2: every component of every Model has as many starting_rvs as the Data
\* has epochs (a mismatching add fails and adds nothing).
C2_StartingRvsMatchEpochs ==
    \A m \in Models : \A i \in 1..Len(Components(m)) :
        Len(Components(m)[i].starting_rvs) = data.N

\* an optimize call on a set-up Model has ended
OptimizeEnded ==
    /\ session.left = 0
    /\ last.op = "optimize"
    /\ IsSetUp(last.m)

\* C3: once an optimize call on a set-up Model has ended, every component
\* built with rvs_fixed=True and set up with the Model has rvs equal to its
\* starting_rvs and an ivars_rvs of zeros.
C3_FixedRvsStay ==
    OptimizeEnded =>
        \A i \in 1..Len(Components(last.m)) :
            LET c == Components(last.m)[i]
            IN (c.rvs_fixed /\ ~IsNone(c.rvs)) =>
                  /\ c.rvs = Some(c.starting_rvs)
                  /\ c.ivars_rvs = Some(Zeros(Len(c.starting_rvs)))

\* the same, for the optimize calls that returned
FixedRvsStayWhenReturned == last.raised \/ C3_FixedRvsStay

\* C4: optimize(0) on a set-up Model leaves rvs, template_ys, basis_vectors
\* and basis_weights of every component as they were.
C4_OptimizeZeroKeepsParameters ==
    [][(session.left = 0 /\ last'.op = "optimize" /\ last'.niter = 0 /\ IsSetUp(last'.m))
         => Params(model'[last'.m]) = Params(model[last'.m])]_vars

\* optimize(0) returned on a set-up Model whose free component got its
\* uncertainties from gradients at perturbed rvs
C4_Witness ==
    /\ OptimizeEnded
    /\ last.niter = 0
    /\ ~last.raised
    /\ \E i \in 1..Len(Components(last.m)) :
          LET c == Components(last.m)[i]
          IN /\ ~c.rvs_fixed
             /\ c.rvs = Some(c.starting_rvs)
             /\ c.ivars_rvs = Some([n \in 1..data.N |-> 1])

\* the component the last add_component call constructed
Built == Components(last.m)[Len(Components(last.m))]

\* C5: a component built with a regularization file whose reading fails at
\* any point has every regularization weight at its keyword (or default) value.
C5_FailedReadKeepsKeywords ==
    (/\ last.op = "add_component"
     /\ ~last.warned
     /\ ~IsNone(last.reg_kw.regularization_par_file)
     /\ \E i \in 1..Len(Built.regularization_par) :
           ReadRaises(last.reg_kw.regularization_par_file[1], Built.regularization_par[i], Built.r))
    => \A i \in 1..Len(Built.regularization_par) :
          LET p == Built.regularization_par[i]
          IN Built.reg[p] = Some(KeywordValue(last.reg_kw, p))

\* C6: once setup() has completed, the components of the Model and its list
\* of update ops stay as they are.
C6_SetupFreezesStructure ==
    [][IsSetUp(TheModel) =>
          /\ model'[TheModel].component_names = model[TheModel].component_names
          /\ Len(model'[TheModel].components) = Len(model[TheModel].components)
          /\ model'[TheModel].updates = model[TheModel].updates]_vars

\* C7: within one session.run(self.updates), every gradient evaluated so far
\* saw the parameter values the iteration started with.
C7_GradientsSeeOneSnapshot ==
    \A g \in session.seen : g.snap = session.start

\* the events of an optimize(niter) call on Model m
ExpectedEvents(m, niter) ==
    RunEvents(niter)
    \o <<Event("estimate_uncertainties", "")>>
    \o [i \in 1..Len(Components(m)) |-> Event("results.update", Components(m)[i].name)]

\* C8: an optimize(niter) call on a set-up Model runs its niter iterations,
\* then estimate_uncertainties, then results.update once per component in
\* insertion order.
C8_OptimizeOrder == OptimizeEnded => last.events = ExpectedEvents(last.m, last.niter)

\* the same, for the optimize calls that returned
OptimizeOrderWhenReturned == last.raised \/ C8_OptimizeOrder

\* the events of a raised optimize call are the start of the expected ones
OptimizeOrderPrefix ==
    (last.op = "optimize" /\ IsSetUp(last.m)) =>
        /\ Len(last.events) <= Len(ExpectedEvents(last.m, last.niter))
        /\ last.events = SubSeq(ExpectedEvents(last.m, last.niter), 1, Len(last.events))

\* C9: results.add_component has been called exactly once for every name
\* some Model holds, and never for another name.
C9_ReportedOncePerName ==
    \A name \in Names :
        Count(results.add_calls, name) =
            IF \E m \in Models : name \in Range(model[m].component_names) THEN 1 ELSE 0

\* two Models hold a component of the same name
C9_Witness ==
    \E name \in Names : \E m1, m2 \in Models :
        /\ m1 # m2
        /\ name \in Range(model[m1].component_names)
        /\ name \in Range(model[m2].component_names)
        /\ Count(results.add_calls, name) = 1

\* C10: setup() calls initialize_template once per component in insertion
\* order, the first on a copy of the observed flux and each later one on the
\* array the one before returned; the Data's own flux array is as it was.
C10_InitializationChain ==
    last.op = "setup" =>
        /\ Len(last.events) = Len(Components(last.m))
        /\ \A i \in 1..Len(last.events) :
              /\ last.events[i].comp = Components(last.m)[i].name
              /\ i = 1 => (last.events[i].in # DataYsId /\ last.events[i].inval = DataInit.ys)
              /\ i > 1 => (/\ last.events[i].in = last.events[i - 1].out
                           /\ last.events[i].inval = last.events[i - 1].outval)
        /\ data.ys = DataInit.ys

\* the same, for the setup calls that returned
ChainWhenSetupReturns == last.raised \/ C10_InitializationChain

====
